---- MODULE Spec2Model ----
(***************************************************************************)
(* Blue/green log watcher (src/blue-green-deployment/watcher.py).          *)
(*                                                                         *)
(* One monitoring session: the configuration read from the environment,    *)
(* the three module globals (last_seen_pool, request_window,               *)
(* last_alert_times) and the main loop that parses one line per iteration  *)
(* and runs check_failover, check_error_rate and check_recovery, each of   *)
(* which may call send_slack_alert.                                        *)
(*                                                                         *)
(* Time is the value of time.time() in whole seconds; it never decreases.  *)
(***************************************************************************)
EXTENDS Integers, Sequences, FiniteSets, TLC

\* ------------------------------------------------------------------ bounds
MaxLines    == 2     \* valid-pool entries taken from the log in one session
MaxTime     == 2     \* largest clock value explored
RateWindow  == 20    \* WINDOW_SIZE of the sessions of SpecRate

\* ------------------------------------------------------------ vocabulary
None == "None"                      \* Python's None
Sentinel == "-"                     \* default of an absent string field
Absent == ""                        \* a token left out of a generated line

Pools == {"blue", "green"}
AlertTypes == {"Failover Detected", "High Error Rate", "Recovery Detected"}
Cooldowns == {0, 2}                 \* ALERT_COOLDOWN_SEC values explored
Delays == {0, 1}                    \* seconds a sink call is seen to take
\* <<WINDOW_SIZE, ERROR_RATE_THRESHOLD (percent)>> of a fresh session
WindowConfigs == {<<1, 0>>, <<2, 50>>}
SinkOutcomes == {"200", "500", "timeout"}
NoPost == <<"none", 0>>

Min(a, b) == IF a < b THEN a ELSE b

VARIABLES
  SLACK_WEBHOOK_URL, ERROR_RATE_THRESHOLD, WINDOW_SIZE, ALERT_COOLDOWN_SEC,
  MAINTENANCE_MODE, initial_pool,
  last_seen_pool, request_window, last_alert_times,
  now, pc,
  line_limit, last_line, observed, detections, calls, delivered, last_branch,
  error_rate, line_read

config == <<SLACK_WEBHOOK_URL, ERROR_RATE_THRESHOLD, WINDOW_SIZE,
            ALERT_COOLDOWN_SEC, MAINTENANCE_MODE, initial_pool>>
globals == <<last_seen_pool, request_window, last_alert_times>>
history == <<observed, detections, calls, delivered, last_branch, error_rate>>
vars == <<config, globals, now, pc, line_limit, last_line, history, line_read>>

\* ------------------------------------------------------------ the parser
\* The optional groups of the pattern, in the order the pattern lists them.
Keys == <<"method", "uri", "status", "pool", "release", "upstream_addr",
          "upstream_status", "request_time", "upstream_response_time",
          "client">>

\* Strings matched by \d+ and what int() makes of them.
DigitStrings == {"200", "500"}
PyInt(s) == CASE s = "200" -> 200
              [] s = "500" -> 500
IntRaises(s) == s \notin DigitStrings

\* A line as tail_file yields it (stripped): an optional bracketed timestamp
\* followed by key=value tokens separated by single spaces.
Tok(key, value) == IF value = Absent THEN <<>> ELSE << <<key, value>> >>
LineOf(ts, s, p, r, c) ==
  [timestamp |-> ts,
   tokens |-> Tok("status", s) \o Tok("pool", p) \o Tok("release", r)
              \o Tok("client", c)]

\* The lines fed to the loop: one without a timestamp, a bare timestamp, a
\* line that ends with its pool token, two lines without a status (one with
\* a pool, one without), a line whose status is not a number, and every
\* combination of status, pool and release followed by a client token.
Lines ==
  {LineOf(Absent, "200", "blue", Absent, "c1"),
   LineOf("t1", "abc", "blue", Absent, "c1"),
   LineOf("t1", Absent, Absent, Absent, Absent),
   LineOf("t1", "200", "blue", Absent, Absent),
   LineOf("t1", Absent, Absent, Absent, "c1"),
   LineOf("t1", Absent, "blue", "r2", "c1")}
  \cup {LineOf("t1", s, p, r, "c1") :
          s \in {"200", "500"},
          p \in {Absent, Sentinel, "blue", "green"}, r \in {Absent, "r2"}}

\* Group k matches at token pos: the key is the group's, the value has the
\* group's shape, and (for every group but client) a space follows, which a
\* stripped line has only when another token follows.
GroupMatches(tokens, pos, k) ==
  /\ pos <= Len(tokens)
  /\ tokens[pos][1] = Keys[k]
  /\ (Keys[k] = "status" => tokens[pos][2] \in DigitStrings)
  /\ (Keys[k] # "client" => pos < Len(tokens))

RECURSIVE MatchGroups(_, _, _, _)
MatchGroups(tokens, pos, k, groups) ==
  IF k > Len(Keys) THEN groups
  ELSE IF GroupMatches(tokens, pos, k)
       THEN MatchGroups(tokens, pos + 1, k + 1,
                        [groups EXCEPT ![k] = tokens[pos][2]])
       ELSE MatchGroups(tokens, pos, k + 1, groups)

Or(group, default) == IF group = None THEN default ELSE group

NoMatch == [matched |-> FALSE]
parse_log_line(line) ==
  IF line.timestamp = Absent \/ Len(line.tokens) = 0
  THEN NoMatch
  ELSE LET g == MatchGroups(line.tokens, 1, 1, [k \in 1..Len(Keys) |-> None])
       IN [matched |-> TRUE,
           timestamp |-> line.timestamp,
           method |-> Or(g[1], "-"),
           uri |-> Or(g[2], "-"),
           status |-> Or(g[3], "-"),
           pool |-> Or(g[4], "-"),
           release |-> Or(g[5], "-"),
           upstream_addr |-> Or(g[6], "-"),
           upstream_status |-> Or(g[7], "-"),
           request_time |-> Or(g[8], "0"),
           upstream_response_time |-> Or(g[9], "0"),
           client |-> Or(g[10], "-")]

\* parse_log_line on the lines fed to the loop, computed once.
Parsed == [line \in Lines |-> parse_log_line(line)]

\* ------------------------------------------------------ send_slack_alert
EmptyDict == [k \in {} |-> 0]       \* last_alert_times = {}

\* The comparison turned round: a recent dispatch no longer blocks.
CooldownActiveReversed(alert_type, t, lat) ==
  /\ alert_type \in DOMAIN lat
  /\ t - lat[alert_type] > ALERT_COOLDOWN_SEC

\* `<=` for `<`: still blocked when exactly the cooldown has elapsed.
CooldownActiveInclusive(alert_type, t, lat) ==
  /\ alert_type \in DOMAIN lat
  /\ t - lat[alert_type] <= ALERT_COOLDOWN_SEC

\* `time_since_last < ALERT_COOLDOWN_SEC` for a type that has an entry.
CooldownActive(alert_type, t, lat) ==
  /\ alert_type \in DOMAIN lat
  /\ t - lat[alert_type] < ALERT_COOLDOWN_SEC

\* The webhook check left out: the sink is called with an empty URL.
DispatchBranchNoWebhookCheck(alert_type, t, lat, outcome) ==
  IF MAINTENANCE_MODE THEN "maintenance"
  ELSE IF CooldownActive(alert_type, t, lat) THEN "cooldown"
  ELSE IF outcome = "200" THEN "sent"
  ELSE "failed"

\* The maintenance check left out.
DispatchBranchNoMaintenance(alert_type, t, lat, outcome) ==
  IF SLACK_WEBHOOK_URL = "" THEN "no_webhook"
  ELSE IF CooldownActive(alert_type, t, lat) THEN "cooldown"
  ELSE IF outcome = "200" THEN "sent"
  ELSE "failed"

\* The branch a call takes, the checks in the order the function makes them.
\* outcome is what the sink does if it is reached: "200", another status,
\* or an exception ("timeout").
DispatchBranch(alert_type, t, lat, outcome) ==
  IF SLACK_WEBHOOK_URL = "" THEN "no_webhook"
  ELSE IF MAINTENANCE_MODE THEN "maintenance"
  ELSE IF CooldownActive(alert_type, t, lat) THEN "cooldown"
  ELSE IF outcome = "200" THEN "sent"
  ELSE "failed"

\* requests.post is called on the last two branches only.
ReachesSink(branch) == branch \in {"sent", "failed"}

\* The time recorded before the sink answers, whatever it answers.
AfterDispatchAlways(lat, alert_type, t, branch) ==
  IF branch \in {"sent", "failed"}
  THEN [k \in DOMAIN lat \cup {alert_type} |->
          IF k = alert_type THEN t ELSE lat[k]]
  ELSE lat

\* last_alert_times after the call: written on the success branch only.
AfterDispatch(lat, alert_type, t, branch) ==
  IF branch = "sent"
  THEN [k \in DOMAIN lat \cup {alert_type} |->
          IF k = alert_type THEN t ELSE lat[k]]
  ELSE lat

\* One call: its record, the table after it and the clock after it. The call
\* reads the clock once (t); a call that reaches the sink takes choice[2].
send_slack_alert(alert_type, details, t, lat, choice) ==
  LET branch == DispatchBranch(alert_type, t, lat, choice[1])
  IN [call |-> [alert_type |-> alert_type, details |-> details, at |-> t,
                branch |-> branch, posted |-> ReachesSink(branch),
                ret |-> (branch = "sent")],
      lat |-> AfterDispatch(lat, alert_type, t, branch),
      t |-> IF ReachesSink(branch) THEN t + choice[2] ELSE t]

\* What the sink can do to a call made at t: nothing when it is not reached.
SinkChoices(alert_type, t, lat) ==
  IF ReachesSink(DispatchBranch(alert_type, t, lat, "200"))
  THEN SinkOutcomes \X {d \in Delays : t + d <= MaxTime}
  ELSE {NoPost}

\* ------------------------------------------------------------ the checks
\* check_failover: the condition of the alert and last_seen_pool afterwards.
\* Without the early return of the first observation.
FailoverDetectedOnFirst(lsp, current_pool) ==
  /\ current_pool # lsp
  /\ current_pool # "-"

FailoverDetected(lsp, current_pool) ==
  /\ lsp # None
  /\ current_pool # lsp
  /\ current_pool # "-"

\* last_seen_pool advanced only when the alert is not suppressed.
FailoverLastSeenUnlessSuppressed(lsp, current_pool) ==
  IF lsp = None THEN current_pool
  ELSE IF FailoverDetected(lsp, current_pool)
          /\ SLACK_WEBHOOK_URL # "" /\ ~MAINTENANCE_MODE
       THEN current_pool
  ELSE lsp

\* last_seen_pool set by the first observation only.
FailoverLastSeenFirstOnly(lsp, current_pool) ==
  IF lsp = None THEN current_pool ELSE lsp

FailoverLastSeen(lsp, current_pool) ==
  IF lsp = None THEN current_pool
  ELSE IF FailoverDetected(lsp, current_pool) THEN current_pool
  ELSE lsp

\* "Previous Pool" read after the update of last_seen_pool.
FailoverDetailsAfterUpdate(lsp, current_pool, log_entry) ==
  [previous_pool |-> current_pool, current_pool |-> current_pool,
   release |-> log_entry.release, upstream |-> log_entry.upstream_addr,
   timestamp |-> log_entry.timestamp]

FailoverDetails(lsp, current_pool, log_entry) ==
  [previous_pool |-> lsp, current_pool |-> current_pool,
   release |-> log_entry.release, upstream |-> log_entry.upstream_addr,
   timestamp |-> log_entry.timestamp]

\* A full window that drops the new sample instead of the oldest.
DequeAppendKeepOld(window, status_code) ==
  IF Len(window) >= WINDOW_SIZE
  THEN window
  ELSE Append(window, status_code)

\* request_window.append on a deque(maxlen=WINDOW_SIZE).
DequeAppend(window, status_code) ==
  IF Len(window) >= WINDOW_SIZE
  THEN Tail(window) \o <<status_code>>
  ELSE Append(window, status_code)

\* Off by one: the rate is computed one sample early.
InsufficientDataEarly(window) == Len(window) < WINDOW_SIZE - 1

\* check_error_rate.
InsufficientData(window) == Len(window) < WINDOW_SIZE

ErrorCount(window) == Cardinality({i \in DOMAIN window : window[i] >= 500})

\* error_rate = (error_count / len(request_window)) * 100 is computed in
\* binary64. For the counts and window lengths up to 30 the product differs
\* from the exact percentage 100 * error_count / samples, where that is a
\* whole number, in these cases only, and there it is one ulp above it:
\* (11/20)*100 = 55.00000000000001, (7/25)*100 = 28.000000000000004,
\* (14/25)*100 = 56.00000000000001.
RoundedUp == {<<11, 20>>, <<7, 25>>, <<14, 25>>}
FloatExcess(error_count, samples) ==
  IF <<error_count, samples>> \in RoundedUp THEN 1 ELSE 0

\* error_rate > ERROR_RATE_THRESHOLD, for a whole-number threshold.
RateExceeds(error_count, samples) ==
  \/ 100 * error_count > ERROR_RATE_THRESHOLD * samples
  \/ /\ 100 * error_count = ERROR_RATE_THRESHOLD * samples
     /\ FloatExcess(error_count, samples) > 0

HighErrorRate(window) ==
  /\ ~InsufficientData(window)
  /\ RateExceeds(ErrorCount(window), Len(window))

ErrorRateDetails(window) ==
  [errors |-> ErrorCount(window), window_size |-> WINDOW_SIZE,
   threshold |-> ERROR_RATE_THRESHOLD]

NotComputed == [computed |-> FALSE]
ComputedRate(window) ==
  IF InsufficientData(window) THEN NotComputed
  ELSE [computed |-> TRUE, error_count |-> ErrorCount(window),
        samples |-> Len(window),
        excess |-> FloatExcess(ErrorCount(window), Len(window))]

\* check_recovery reads the global last_seen_pool as check_failover left it.
\* Without the equality guard on last_seen_pool.
RecoveryDetectedUnguarded(current_pool, primary, lsp) ==
  current_pool = primary

RecoveryDetected(current_pool, primary, lsp) ==
  /\ current_pool = primary
  /\ lsp # primary

RecoveryDetails(primary) == [recovered_pool |-> primary]

\* ------------------------------------------------------------- main loop
\* One detection of one iteration: the call made if the condition holds,
\* else the table and the clock as they were.
NoCall(t, lat) == [made |-> FALSE, lat |-> lat, t |-> t]
Detect(detected, alert_type, details, t, lat, choice) ==
  IF detected
  THEN [made |-> TRUE] @@ send_slack_alert(alert_type, details, t, lat, choice)
  ELSE NoCall(t, lat)

CallsOf(r) == IF r.made THEN <<r.call>> ELSE <<>>

\* What the session keeps of a detection: its type and, for a failover, the
\* two pools.
Subject(c) ==
  IF c.alert_type = "Failover Detected"
  THEN <<c.details.previous_pool, c.details.current_pool>>
  ELSE <<>>

RECURSIVE Detections(_)
Detections(cs) ==
  IF cs = <<>> THEN <<>>
  ELSE <<[alert_type |-> Head(cs).alert_type, pools |-> Subject(Head(cs))]>>
       \o Detections(Tail(cs))

TypesCalled(cs) == {cs[i].alert_type : i \in DOMAIN cs}
CallOf(cs, alert_type) ==
  cs[CHOOSE i \in DOMAIN cs : cs[i].alert_type = alert_type]

\* History kept beside the program's state: delivered[a] holds the times of
\* the calls of type a that the sink answered with 200, last_branch[a] the
\* branches of the last two calls of type a, calls the calls made for the
\* last entry, detections every call of the session, error_rate the rate
\* check_error_rate computed last.
\* What the loop did with the line it took last (kind) and the pool label it
\* read from it, None when the line did not parse. observed holds the entries
\* that reached request_window.append, in order.
NoLine == [kind |-> "none", pool |-> None]
Line(kind, pool) == [kind |-> kind, pool |-> pool]

\* `for line in tail_file(LOG_FILE)`: line_read is the line the loop took
\* last, in the sessions that keep it (SpecLines).
NotKept == [kept |-> FALSE]
NothingRead == [kept |-> TRUE, read |-> FALSE]
Keep(line) ==
  IF line_read.kept THEN [kept |-> TRUE, read |-> TRUE, line |-> line]
  ELSE line_read

\* `if not log_entry: continue`
SkipUnparseable ==
  /\ pc = "running"
  /\ \E line \in Lines :
    /\ ~Parsed[line].matched
    /\ last_line' = Line("skipped", None)
    /\ line_read' = Keep(line)
    /\ UNCHANGED <<config, globals, now, pc, line_limit, history>>

\* `status_code = int(log_entry.get('status', '0'))` raises ValueError, which
\* main prints and re-raises: the loop ends.
RaiseOnStatus ==
  /\ pc = "running"
  /\ \E line \in Lines : \E log_entry \in {Parsed[line]} :
    /\ log_entry.matched
    /\ IntRaises(log_entry.status)
    /\ pc' = "crashed"
    /\ last_line' = Line("raised", log_entry.pool)
    /\ line_read' = Keep(line)
    /\ UNCHANGED <<config, globals, now, line_limit, history>>

\* `if current_pool == '-': continue`
SkipNoPool ==
  /\ pc = "running"
  /\ \E line \in Lines : \E log_entry \in {Parsed[line]} :
    /\ log_entry.matched
    /\ ~IntRaises(log_entry.status)
    /\ log_entry.pool = "-"
    /\ last_line' = Line("skipped", log_entry.pool)
    /\ line_read' = Keep(line)
    /\ UNCHANGED <<config, globals, now, pc, line_limit, history>>

\* The rest of the loop body: append, check_failover, check_error_rate,
\* check_recovery, in that order, each call with its own sink outcome.
ProcessEntry ==
  /\ pc = "running"
  /\ \E line \in Lines : \E log_entry \in {Parsed[line]} :
    /\ Len(observed) < line_limit
    /\ log_entry.matched
    /\ ~IntRaises(log_entry.status)
    /\ log_entry.pool # "-"
    /\ \E current_pool \in {log_entry.pool} :
       \E window \in {DequeAppend(request_window, PyInt(log_entry.status))} :
       \E c1 \in SinkChoices("Failover Detected", now, last_alert_times) :
       \E r1 \in {Detect(FailoverDetected(last_seen_pool, current_pool),
                         "Failover Detected",
                         FailoverDetails(last_seen_pool, current_pool, log_entry),
                         now, last_alert_times, c1)} :
       \E lsp \in {FailoverLastSeen(last_seen_pool, current_pool)} :
       \E c2 \in SinkChoices("High Error Rate", r1.t, r1.lat) :
       \E r2 \in {Detect(HighErrorRate(window), "High Error Rate",
                         ErrorRateDetails(window), r1.t, r1.lat, c2)} :
       \E c3 \in SinkChoices("Recovery Detected", r2.t, r2.lat) :
       \E r3 \in {Detect(RecoveryDetected(current_pool, initial_pool, lsp),
                         "Recovery Detected", RecoveryDetails(initial_pool),
                         r2.t, r2.lat, c3)} :
       \E cs \in {CallsOf(r1) \o CallsOf(r2) \o CallsOf(r3)} :
         /\ (~r1.made => c1 \in {<<"200", 0>>, NoPost})
         /\ (~r2.made => c2 \in {<<"200", 0>>, NoPost})
         /\ (~r3.made => c3 \in {<<"200", 0>>, NoPost})
         /\ request_window' = window
         /\ last_seen_pool' = lsp
         /\ last_alert_times' = r3.lat
         /\ now' = r3.t
         /\ last_line' = Line("entry", current_pool)
         /\ line_read' = Keep(line)
         /\ observed' = Append(observed, [pool |-> current_pool,
                                          status |-> log_entry.status])
         /\ detections' = detections \o Detections(cs)
         /\ calls' = cs
         /\ delivered' =
              [a \in AlertTypes |->
                 IF a \in TypesCalled(cs) /\ CallOf(cs, a).branch = "sent"
                 THEN delivered[a] \cup {CallOf(cs, a).at}
                 ELSE delivered[a]]
         /\ last_branch' =
              [a \in AlertTypes |->
                 IF a \in TypesCalled(cs)
                 THEN <<last_branch[a][2], CallOf(cs, a).branch>>
                 ELSE last_branch[a]]
         /\ error_rate' = ComputedRate(window)
         /\ UNCHANGED <<config, pc, line_limit>>

\* time.time() moves on between two lines.
Tick ==
  /\ pc = "running"
  /\ now < MaxTime
  /\ now' = now + 1
  /\ UNCHANGED <<config, globals, pc, line_limit, last_line, history,
                 line_read>>

\* KeyboardInterrupt while tail_file waits for a line: `except
\* KeyboardInterrupt` in main ends the loop.
StopWhileTailing ==
  /\ pc = "running"
  /\ pc' = "stopped"
  /\ last_line' = Line("stopped", None)
  /\ UNCHANGED <<config, globals, now, line_limit, history, line_read>>

\* Where a KeyboardInterrupt can reach a check that has detected something:
\* at the print that announces the detection, before send_slack_alert is
\* called ("announcing"); inside requests.post before an answer came
\* ("waiting"); after the sink answered 200 and before the assignment of
\* line 102 ("answered").
StopPoints == {"announcing", "waiting", "answered"}

\* The call the interrupt ended: it does not return.
Interrupted(alert_type, details, t, point) ==
  [alert_type |-> alert_type, details |-> details, at |-> t,
   branch |-> "stopped_" \o point, posted |-> TRUE, ret |-> FALSE]

\* KeyboardInterrupt while one of the three checks handles a detection. It
\* is not an Exception, so the handler of line 108 lets it pass and main
\* ends the loop: the checks before this one have run, the call (if it was
\* begun) has not written last_alert_times, and nothing after it runs (in
\* check_failover, the assignment of line 137).
StopInCheck ==
  /\ pc = "running"
  /\ \E line \in Lines : \E log_entry \in {Parsed[line]} :
    /\ Len(observed) < line_limit
    /\ log_entry.matched
    /\ ~IntRaises(log_entry.status)
    /\ log_entry.pool # "-"
    /\ \E current_pool \in {log_entry.pool} :
       \E window \in {DequeAppend(request_window, PyInt(log_entry.status))} :
       \E stage \in 1..3 : \E point \in StopPoints :
       \E c1 \in IF stage > 1
                 THEN SinkChoices("Failover Detected", now, last_alert_times)
                 ELSE {NoPost} :
       \E r1 \in {Detect(FailoverDetected(last_seen_pool, current_pool),
                         "Failover Detected",
                         FailoverDetails(last_seen_pool, current_pool, log_entry),
                         now, last_alert_times, c1)} :
       \E lsp \in {FailoverLastSeen(last_seen_pool, current_pool)} :
       \E c2 \in IF stage > 2
                 THEN SinkChoices("High Error Rate", r1.t, r1.lat)
                 ELSE {NoPost} :
       \E r2 \in {Detect(HighErrorRate(window), "High Error Rate",
                         ErrorRateDetails(window), r1.t, r1.lat, c2)} :
       \E before \in
            {CASE stage = 1 ->
                    [cs |-> <<>>, lat |-> last_alert_times, t |-> now,
                     lsp |-> last_seen_pool,
                     detected |-> FailoverDetected(last_seen_pool, current_pool),
                     alert_type |-> "Failover Detected",
                     details |-> FailoverDetails(last_seen_pool, current_pool,
                                                 log_entry)]
               [] stage = 2 ->
                    [cs |-> CallsOf(r1), lat |-> r1.lat, t |-> r1.t,
                     lsp |-> lsp,
                     detected |-> HighErrorRate(window),
                     alert_type |-> "High Error Rate",
                     details |-> ErrorRateDetails(window)]
               [] stage = 3 ->
                    [cs |-> CallsOf(r1) \o CallsOf(r2), lat |-> r2.lat,
                     t |-> r2.t, lsp |-> lsp,
                     detected |-> RecoveryDetected(current_pool, initial_pool,
                                                   lsp),
                     alert_type |-> "Recovery Detected",
                     details |-> RecoveryDetails(initial_pool)]} :
       \E cs \in {IF point = "announcing" THEN before.cs
                  ELSE before.cs \o <<Interrupted(before.alert_type,
                                                  before.details, before.t,
                                                  point)>>} :
         /\ before.detected
         /\ point # "announcing" =>
              ReachesSink(DispatchBranch(before.alert_type, before.t,
                                         before.lat, "200"))
         /\ (stage > 1 /\ ~r1.made => c1 \in {<<"200", 0>>, NoPost})
         /\ (stage > 2 /\ ~r2.made => c2 \in {<<"200", 0>>, NoPost})
         /\ pc' = "stopped"
         /\ request_window' = window
         /\ last_seen_pool' = before.lsp
         /\ last_alert_times' = before.lat
         /\ now' = before.t
         /\ last_line' = Line("stopped", current_pool)
         /\ line_read' = Keep(line)
         /\ observed' = Append(observed, [pool |-> current_pool,
                                          status |-> log_entry.status])
         /\ detections' = detections \o Detections(cs)
         /\ calls' = cs
         /\ delivered' =
              [a \in AlertTypes |->
                 IF a \in TypesCalled(cs)
                    /\ CallOf(cs, a).branch \in {"sent", "stopped_answered"}
                 THEN delivered[a] \cup {CallOf(cs, a).at}
                 ELSE delivered[a]]
         /\ last_branch' =
              [a \in AlertTypes |->
                 IF a \in TypesCalled(cs)
                 THEN <<last_branch[a][2], CallOf(cs, a).branch>>
                 ELSE last_branch[a]]
         /\ error_rate' = IF stage > 1 THEN ComputedRate(window) ELSE error_rate
         /\ UNCHANGED <<config, line_limit>>

Next ==
  \/ SkipUnparseable \/ RaiseOnStatus \/ SkipNoPool \/ ProcessEntry \/ Tick
  \/ StopWhileTailing \/ StopInCheck

\* ------------------------------------------------------------ a session
\* The module-level assignments (the three globals) and the start of main.
FreshState ==
  /\ last_seen_pool = None
  /\ request_window = <<>>
  /\ last_alert_times = EmptyDict
  /\ now = 0
  /\ pc = "running"
  /\ last_line = NoLine
  /\ observed = <<>>
  /\ detections = <<>>
  /\ calls = <<>>
  /\ delivered = [a \in AlertTypes |-> {}]
  /\ last_branch = [a \in AlertTypes |-> <<"none", "none">>]
  /\ error_rate = NotComputed

\* The configuration from the environment. Alerts can reach the sink only
\* with a webhook and without maintenance mode; the cooldown is read only
\* then.
Webhook == "https://hooks.slack.test/T"
Configuration(urls, windows, primaries) ==
  /\ SLACK_WEBHOOK_URL \in urls
  /\ MAINTENANCE_MODE \in BOOLEAN
  /\ ALERT_COOLDOWN_SEC \in
       IF SLACK_WEBHOOK_URL # "" /\ ~MAINTENANCE_MODE
       THEN Cooldowns ELSE {300}
  /\ \E w \in windows :
       WINDOW_SIZE = w[1] /\ ERROR_RATE_THRESHOLD = w[2]
  /\ initial_pool \in primaries

\* A session from its start, with and without alert delivery.
Init ==
  /\ Configuration({"", Webhook}, WindowConfigs, {"blue"})
  /\ FreshState
  /\ line_limit = MaxLines
  /\ line_read = NotKept

Spec == Init /\ [][Next]_vars

\* Longer sessions without a webhook, either pool the primary: the tracker.
InitTracker ==
  /\ Configuration({""}, WindowConfigs, Pools)
  /\ FreshState
  /\ line_limit = MaxLines + 1
  /\ line_read = NotKept

SpecTracker == InitTracker /\ [][Next]_vars

\* A session with WINDOW_SIZE = RateWindow and a threshold of 55 percent,
\* taken up one entry before its window is full: so far every entry came
\* from the blue pool, the first errors of them with status 500 and the rest
\* with status 200, so nothing was detected and no rate was computed yet.
PastEntries(errors) ==
  [i \in 1..(RateWindow - 1) |->
     [pool |-> "blue", status |-> IF i <= errors THEN "500" ELSE "200"]]

InitRate ==
  /\ Configuration({"", Webhook}, {<<RateWindow, 55>>}, {"blue"})
  /\ \E errors \in 9..11 :
       /\ observed = PastEntries(errors)
       /\ request_window =
            [i \in 1..(RateWindow - 1) |-> PyInt(PastEntries(errors)[i].status)]
  /\ last_seen_pool = "blue"
  /\ last_alert_times = EmptyDict
  /\ now = 0
  /\ pc = "running"
  /\ last_line = Line("entry", "blue")
  /\ detections = <<>>
  /\ calls = <<>>
  /\ delivered = [a \in AlertTypes |-> {}]
  /\ last_branch = [a \in AlertTypes |-> <<"none", "none">>]
  /\ error_rate = NotComputed
  /\ line_limit = RateWindow - 1 + MaxLines
  /\ line_read = NotKept

SpecRate == InitRate /\ [][Next]_vars

\* Sessions without a webhook that keep the line read last: a window of one
\* sample and a threshold of 0 percent, so that an error entry is detected.
InitLines ==
  /\ Configuration({""}, {<<1, 0>>}, {"blue"})
  /\ FreshState
  /\ line_limit = MaxLines
  /\ line_read = NothingRead

SpecLines == InitLines /\ [][Next]_vars

\* ================================================================ claims
Range(f) == {f[i] : i \in DOMAIN f}
CountOf(alert_type) ==
  Cardinality({i \in DOMAIN detections : detections[i].alert_type = alert_type})
CallsOfType(cs, alert_type) ==
  {i \in DOMAIN cs : cs[i].alert_type = alert_type}
\* This step processed a valid entry (ran the three checks).
EntryStep ==
  /\ Len(observed') = Len(observed) + 1
  /\ last_line'.kind = "entry"
Live == SLACK_WEBHOOK_URL # "" /\ ~MAINTENANCE_MODE

\* ------------------------------------------------------------------- C1
\* The entries processed so far came from the primary pool (one or more),
\* then from the other pool (one or more), then one from the primary.
AwayAndBack(primary, other) ==
  /\ Len(observed) >= 3
  /\ \E a \in 1..(Len(observed) - 2) :
       \A i \in DOMAIN observed :
         observed[i].pool =
           IF i <= a \/ i = Len(observed) THEN primary ELSE other

\* C1: after the observations primary.., other.., primary the session has
\* made exactly one Failover detection, from the primary to the other pool,
\* and exactly one Recovery detection.
C1_OneFailoverOneRecovery ==
  \A other \in Pools \ {initial_pool} :
    AwayAndBack(initial_pool, other) =>
      /\ CountOf("Failover Detected") = 1
      /\ [alert_type |-> "Failover Detected",
          pools |-> <<initial_pool, other>>] \in Range(detections)
      /\ CountOf("Recovery Detected") = 1

\* ------------------------------------------------------------------- C2
\* C2: an entry from the primary pool, processed when last_seen_pool was
\* another pool, makes a "Recovery Detected" call.
C2_RecoveryOnReturnToPrimary ==
  [][(/\ EntryStep
      /\ last_line'.pool = initial_pool
      /\ last_seen_pool \in Pools \ {initial_pool})
     => CallsOfType(calls', "Recovery Detected") # {}]_vars

\* ------------------------------------------------------------------- C3
\* C3: with a webhook and no maintenance mode, a call of a type that was
\* delivered less than ALERT_COOLDOWN_SEC before it returns false without a
\* sink call; so a delivered call is at least ALERT_COOLDOWN_SEC after every
\* earlier delivery of its type.
C3_CooldownSuppresses ==
  [][(EntryStep /\ Live) =>
       \A i \in DOMAIN calls' :
         /\ (\E t1 \in delivered[calls'[i].alert_type] :
               calls'[i].at - t1 < ALERT_COOLDOWN_SEC)
            => (~calls'[i].ret /\ ~calls'[i].posted)
         /\ calls'[i].ret =>
              \A t1 \in delivered[calls'[i].alert_type] :
                calls'[i].at - t1 >= ALERT_COOLDOWN_SEC]_vars

\* A second trigger of a delivered type, within the cooldown, was refused.
C3_Witness ==
  /\ Live
  /\ \E i \in DOMAIN calls :
       /\ calls[i].branch = "cooldown"
       /\ ~calls[i].posted
       /\ \E t1 \in delivered[calls[i].alert_type] :
            calls[i].at - t1 < ALERT_COOLDOWN_SEC

\* ------------------------------------------------------------------- C4
\* C4: with a webhook and no maintenance mode, a call reaches the sink when
\* no call of its type was delivered within the ALERT_COOLDOWN_SEC before it
\* (none at all, only other types, or the last one long enough ago).
C4_DispatchedOutsideCooldown ==
  [][(EntryStep /\ Live) =>
       \A i \in DOMAIN calls' :
         (\A t1 \in delivered[calls'[i].alert_type] :
            calls'[i].at - t1 >= ALERT_COOLDOWN_SEC)
         => calls'[i].posted]_vars

\* A type delivered, and delivered again once a positive cooldown elapsed.
C4_Witness ==
  /\ Live
  /\ ALERT_COOLDOWN_SEC > 0
  /\ \E i \in DOMAIN calls :
       /\ calls[i].branch = "sent"
       /\ \E t1 \in delivered[calls[i].alert_type] :
            calls[i].at - t1 >= ALERT_COOLDOWN_SEC

\* ------------------------------------------------------------------- C5
\* C5: in maintenance mode every call returns false, none reaches the sink
\* and last_alert_times stays empty.
C5_MaintenanceSuppressesAll ==
  MAINTENANCE_MODE =>
    /\ last_alert_times = EmptyDict
    /\ \A a \in AlertTypes : delivered[a] = {}
    /\ \A i \in DOMAIN calls : ~calls[i].ret /\ ~calls[i].posted

\* Maintenance mode with a webhook, and two conditions triggered at once.
C5_Witness ==
  /\ MAINTENANCE_MODE
  /\ SLACK_WEBHOOK_URL # ""
  /\ Len(calls) >= 2
  /\ \A i \in DOMAIN calls : calls[i].branch = "maintenance"

\* ------------------------------------------------------------------- C6
\* C6: a call whose sink call fails returns false and leaves the entry of
\* its type in last_alert_times as it was (the whole table when no call of
\* the entry is delivered), the loop keeps running, and the next call of the
\* same type reaches the sink.
C6_SinkFailureKeepsCooldown ==
  [][EntryStep =>
       /\ \A i \in DOMAIN calls' :
            calls'[i].branch = "failed" =>
              LET a == calls'[i].alert_type IN
              /\ calls'[i].posted /\ ~calls'[i].ret
              /\ (a \in DOMAIN last_alert_times') = (a \in DOMAIN last_alert_times)
              /\ (a \in DOMAIN last_alert_times =>
                    last_alert_times'[a] = last_alert_times[a])
              /\ pc' = "running"
       /\ ((\A i \in DOMAIN calls' : calls'[i].branch # "sent")
             => last_alert_times' = last_alert_times)
       /\ \A i \in DOMAIN calls' :
            last_branch[calls'[i].alert_type][2] = "failed" => calls'[i].posted
     ]_vars

\* A sink call failed and the next call of its type, under a positive
\* cooldown, was delivered: the first delivery of that type.
C6_Witness ==
  /\ ALERT_COOLDOWN_SEC > 0
  /\ pc = "running"
  /\ \E i \in DOMAIN calls :
       /\ last_branch[calls[i].alert_type] = <<"failed", "sent">>
       /\ delivered[calls[i].alert_type] = {calls[i].at}

\* ------------------------------------------------------------------- C7
\* C7: when the window holds WINDOW_SIZE samples after a push, the entry made
\* exactly one "High Error Rate" call if 100 * (samples with status >= 500) /
\* WINDOW_SIZE is greater than ERROR_RATE_THRESHOLD, and none otherwise
\* (entries cut short by a KeyboardInterrupt aside).
C7_DispatchIffRateAboveThreshold ==
  (Len(request_window) = WINDOW_SIZE /\ pc # "stopped") =>
    Cardinality(CallsOfType(calls, "High Error Rate")) =
      IF 100 * Cardinality({i \in DOMAIN request_window :
                              request_window[i] >= 500})
           > ERROR_RATE_THRESHOLD * WINDOW_SIZE
      THEN 1 ELSE 0

\* ------------------------------------------------------------------- C8
\* The computed percentage lies in [0, 100].
RateInRange(r) ==
  /\ 0 <= r.error_count /\ r.error_count <= r.samples /\ r.samples > 0
  /\ (r.error_count = 0 => r.excess >= 0)
  /\ (r.error_count = r.samples => r.excess <= 0)

\* C8: while fewer than WINDOW_SIZE samples have been pushed no rate is
\* computed and no "High Error Rate" call has been made; from then on, in a
\* loop no KeyboardInterrupt has ended, the rate computed last lies in
\* [0, 100].
C8_NoRateBeforeWindowFull ==
  /\ Len(observed) < WINDOW_SIZE =>
       /\ CountOf("High Error Rate") = 0
       /\ ~error_rate.computed
  /\ (Len(observed) >= WINDOW_SIZE /\ pc # "stopped") =>
       /\ error_rate.computed
       /\ RateInRange(error_rate)

\* Every sample pushed so far is an error and the window is not full.
C8_Witness ==
  /\ observed # <<>>
  /\ Len(observed) < WINDOW_SIZE
  /\ \A i \in DOMAIN observed : observed[i].status = "500"

\* ------------------------------------------------------------------- C9
\* C9: request_window holds the status codes of the last min(k, WINDOW_SIZE)
\* of the k entries processed so far, in arrival order.
C9_WindowIsLastEntries ==
  LET k == Len(observed)
      n == Min(k, WINDOW_SIZE)
  IN /\ Len(request_window) = n
     /\ Len(request_window) <= WINDOW_SIZE
     /\ \A i \in 1..n :
          request_window[i] = PyInt(observed[k - n + i].status)

\* More entries than the window holds: the oldest, an error, was evicted
\* from a window of two.
C9_Witness ==
  /\ WINDOW_SIZE >= 2
  /\ Len(observed) > WINDOW_SIZE
  /\ observed[1].status = "500"
  /\ 500 \notin Range(request_window)

\* ------------------------------------------------------------------ C10
\* C10: a line that does not parse, or whose pool label is "-", leaves
\* request_window, last_seen_pool and last_alert_times as they were, makes no
\* detection, and the loop goes on.
C10_SkippedLineChangesNothing ==
  [][(last_line'.kind \in {"skipped", "raised"}
      /\ last_line'.pool \in {None, "-"})
     => /\ UNCHANGED globals
        /\ UNCHANGED <<detections, calls>>
        /\ pc' = "running"]_vars

\* ------------------------------------------------------------------ C11
\* C11: a parsed line with a valid pool whose status is absent or not a
\* number (the conversion of line 238 rejects it) is pushed into the window
\* as status 0, a non-error sample, the checks run, and the loop goes on.
C11_MissingStatusCountsAsZero ==
  [][(last_line'.kind = "raised" /\ last_line'.pool \in Pools)
     => /\ pc' = "running"
        /\ EntryStep
        /\ request_window' = DequeAppend(request_window, 0)]_vars

\* ------------------------------------------------------------------ C12
\* C12: with last_seen_pool = p, an entry from pool q makes a "Failover
\* Detected" call if and only if q # p; the call carries p as the previous
\* pool, q as the current pool and the release, upstream address and
\* timestamp of the entry; afterwards last_seen_pool = q (unchanged when
\* q = p).
C12_FailoverIffPoolChanged ==
  [][(EntryStep /\ last_seen_pool # None /\ line_read'.kept) =>
       LET p == last_seen_pool
           e == parse_log_line(line_read'.line)
           f == CallsOfType(calls', "Failover Detected")
       IN /\ (e.pool # p) = (f # {})
          /\ Cardinality(f) <= 1
          /\ \A i \in f :
               calls'[i].details =
                 [previous_pool |-> p, current_pool |-> e.pool,
                  release |-> e.release, upstream |-> e.upstream_addr,
                  timestamp |-> e.timestamp]
          /\ last_seen_pool' = e.pool
          /\ (e.pool = p => last_seen_pool' = last_seen_pool)]_vars

\* Traffic moved from blue to green on an entry of release r2.
C12_Witness ==
  /\ line_read.kept /\ line_read.read
  /\ last_seen_pool = "green"
  /\ \E i \in DOMAIN calls :
       /\ calls[i].alert_type = "Failover Detected"
       /\ calls[i].details.previous_pool = "blue"
       /\ calls[i].details.current_pool = "green"
       /\ calls[i].details.release = "r2"
       /\ parse_log_line(line_read.line).release = "r2"

\* ------------------------------------------------------------------ C13
\* C13: the first entry of a session (last_seen_pool is None) sets
\* last_seen_pool to its pool and makes neither a "Failover Detected" nor a
\* "Recovery Detected" call, whether or not its pool is the primary.
C13_FirstObservationOnlyInitialises ==
  [][(EntryStep /\ last_seen_pool = None) =>
       /\ last_seen_pool' = last_line'.pool
       /\ last_seen_pool' = observed'[Len(observed')].pool
       /\ CallsOfType(calls', "Failover Detected") = {}
       /\ CallsOfType(calls', "Recovery Detected") = {}
       /\ CountOf("Failover Detected")' = 0
       /\ CountOf("Recovery Detected")' = 0]_vars

\* The first entry came from the pool that is not the primary.
C13_Witness ==
  /\ Len(observed) = 1
  /\ observed[1].pool # initial_pool
  /\ last_seen_pool = observed[1].pool
  /\ CountOf("Failover Detected") = 0
  /\ CountOf("Recovery Detected") = 0

\* ------------------------------------------------------------------ C14
\* C14: an entry from the primary pool that follows an entry from the
\* primary pool makes no "Recovery Detected" call (so in a run of entries
\* from the primary only the first can make one).
C14_NoRecoveryWhileOnPrimary ==
  [][(/\ EntryStep
      /\ observed # <<>>
      /\ observed[Len(observed)].pool = initial_pool
      /\ last_seen_pool = initial_pool
      /\ last_line'.pool = initial_pool)
     => CallsOfType(calls', "Recovery Detected") = {}]_vars

\* Traffic left the primary, came back and stayed: two entries in a row from
\* the primary, the second without a Recovery call.
C14_Witness ==
  /\ Len(observed) = 3
  /\ observed[1].pool # initial_pool
  /\ observed[2].pool = initial_pool
  /\ observed[3].pool = initial_pool
  /\ last_seen_pool = initial_pool
  /\ CallsOfType(calls, "Recovery Detected") = {}

\* ------------------------------------------------------------------ C15
\* C15: without a webhook every call returns false on the first check, in
\* and out of maintenance mode: no sink call is made and last_alert_times
\* is never written.
C15_NoWebhookNoSinkCall ==
  SLACK_WEBHOOK_URL = "" =>
    /\ last_alert_times = EmptyDict
    /\ \A a \in AlertTypes : delivered[a] = {}
    /\ \A i \in DOMAIN calls :
         /\ calls[i].branch = "no_webhook"
         /\ ~calls[i].ret
         /\ ~calls[i].posted

\* No webhook and maintenance mode at once: the call stopped at the webhook
\* check.
C15_Witness ==
  /\ SLACK_WEBHOOK_URL = ""
  /\ MAINTENANCE_MODE
  /\ \E i \in DOMAIN calls : calls[i].branch = "no_webhook"

\* ------------------------------------------------------------------ C16
\* The latest time at which a call of type a was delivered.
LastDelivered(a) ==
  CHOOSE t \in delivered[a] : \A u \in delivered[a] : u <= t

\* C16: last_alert_times has an entry for a type only if a call of that type
\* was delivered, and the entry is the time of such a delivery; its keys
\* are alert types; a step writes an entry only for a call it delivered,
\* never lowers an entry and never removes one.
C16_EntriesOnlyFromDeliveries ==
  /\ [](/\ DOMAIN last_alert_times \subseteq AlertTypes
        /\ \A a \in DOMAIN last_alert_times :
             /\ delivered[a] # {}
             /\ last_alert_times[a] \in delivered[a]
             /\ last_alert_times[a] <= now)
  /\ [][/\ DOMAIN last_alert_times \subseteq DOMAIN last_alert_times'
        /\ \A a \in DOMAIN last_alert_times :
             last_alert_times'[a] >= last_alert_times[a]
        /\ \A a \in DOMAIN last_alert_times' :
             (\/ a \notin DOMAIN last_alert_times
              \/ last_alert_times'[a] # last_alert_times[a])
             => \E i \in DOMAIN calls' :
                  /\ calls'[i].alert_type = a
                  /\ calls'[i].branch = "sent"
                  /\ calls'[i].at = last_alert_times'[a]]_vars

\* Two types have an entry, one of them written a second time.
C16_Witness ==
  /\ Cardinality(DOMAIN last_alert_times) >= 2
  /\ \E a \in DOMAIN last_alert_times :
       /\ Cardinality(delivered[a]) >= 2
       /\ last_alert_times[a] = LastDelivered(a)

\* ------------------------------------------------------------------ C17
\* The value the line gives for a key, or the key's default when the line
\* has no token for it.
Given(line, key) ==
  IF \E i \in DOMAIN line.tokens : line.tokens[i][1] = key
  THEN line.tokens[CHOOSE i \in DOMAIN line.tokens :
                     line.tokens[i][1] = key][2]
  ELSE IF key \in {"request_time", "upstream_response_time"} THEN "0"
  ELSE "-"

\* C17: a line without a bracketed timestamp gives no match; a line made of
\* a bracketed timestamp and any subset of the key=value tokens, in the
\* pattern's order, gives an entry in which every key the line has carries
\* the line's value and every other key its default.
C17_ParsedFieldsAsGiven ==
  (line_read.kept /\ line_read.read) =>
    LET line == line_read.line
        e == parse_log_line(line)
    IN IF line.timestamp = Absent
       THEN ~e.matched
       ELSE /\ e.matched
            /\ e.timestamp = line.timestamp
            /\ \A k \in DOMAIN Keys : e[Keys[k]] = Given(line, Keys[k])

\* ------------------------------------------------------------------ C18
\* C18: when a KeyboardInterrupt has ended the loop, the time of every call
\* the sink answered with success is recorded in last_alert_times, and
\* last_alert_times records nothing else.
C18_NoTornDispatchAtExit ==
  pc = "stopped" =>
    \A a \in AlertTypes :
      /\ \A t \in delivered[a] :
           a \in DOMAIN last_alert_times /\ last_alert_times[a] >= t
      /\ a \in DOMAIN last_alert_times =>
           last_alert_times[a] \in delivered[a]

\* ------------------------------------------------------------------ C19
\* What the entries processed so far determine, whatever became of the
\* alerts: the window after entry i and the detections entry i makes.
WindowAt(i) ==
  [j \in 1..Min(i, WINDOW_SIZE) |->
     PyInt(observed[i - Min(i, WINDOW_SIZE) + j].status)]

ExpectedAt(i) ==
  (IF i > 1 /\ observed[i].pool # observed[i - 1].pool
   THEN <<[alert_type |-> "Failover Detected",
           pools |-> <<observed[i - 1].pool, observed[i].pool>>]>>
   ELSE <<>>)
  \o (IF HighErrorRate(WindowAt(i))
      THEN <<[alert_type |-> "High Error Rate", pools |-> <<>>]>>
      ELSE <<>>)
  \o (IF RecoveryDetected(observed[i].pool, initial_pool, observed[i].pool)
      THEN <<[alert_type |-> "Recovery Detected", pools |-> <<>>]>>
      ELSE <<>>)

RECURSIVE ExpectedDetections(_)
ExpectedDetections(i) ==
  IF i = 0 THEN <<>> ELSE ExpectedDetections(i - 1) \o ExpectedAt(i)

\* C19: while the loop runs, last_seen_pool, request_window and the
\* detections made are those the processed entries determine, the same with
\* and without a webhook, in and out of maintenance mode, whatever the
\* cooldown and whatever the sink answered; last_seen_pool is the pool of
\* the last entry even when the Failover alert was suppressed or failed.
C19_TrackerIndependentOfDelivery ==
  pc # "stopped" =>
    /\ last_seen_pool =
         IF observed = <<>> THEN None ELSE observed[Len(observed)].pool
    /\ request_window = WindowAt(Len(observed))
    /\ detections = ExpectedDetections(Len(observed))

\* The sink failed on the Failover alert and last_seen_pool moved on.
C19_Witness ==
  /\ pc = "running"
  /\ Len(observed) >= 2
  /\ observed[Len(observed)].pool # observed[Len(observed) - 1].pool
  /\ last_branch["Failover Detected"][2] = "failed"
  /\ last_seen_pool = observed[Len(observed)].pool
  /\ CountOf("Failover Detected") = 1

\* ------------------------------------------------------------------ C20
\* C20: last_seen_pool is never "-"; while the loop runs it is None before
\* the first entry and the pool of the last entry afterwards, and it is the
\* entry's pool as soon as check_failover has run on an entry.
C20_LastSeenIsLastValidPool ==
  /\ [](/\ last_seen_pool \in Pools \cup {None}
        /\ last_seen_pool # "-"
        /\ pc # "stopped" =>
             /\ (last_seen_pool = None) = (observed = <<>>)
             /\ observed # <<>> =>
                  last_seen_pool = observed[Len(observed)].pool)
  /\ [][EntryStep => last_seen_pool' = last_line'.pool]_vars

\* The pool changed, and a line without a pool was skipped afterwards.
C20_Witness ==
  /\ pc = "running"
  /\ Len(observed) >= 2
  /\ observed[Len(observed)].pool # observed[Len(observed) - 1].pool
  /\ last_line = Line("skipped", "-")
  /\ last_seen_pool = observed[Len(observed)].pool

====
